---- MODULE Spec2Model ----
(***************************************************************************)
(* The vector-index cache of utils/rag/rag_system.py: create_vector_db     *)
(* with the fingerprint cache file, the vectordb_<timestamp> directories   *)
(* and the orphan cleanup, called by one or by two overlapping requests.   *)
(*                                                                         *)
(* Shared state is the filesystem (the cache file and the index            *)
(* directories under BASE_DIR) and the wall clock.  Each request runs      *)
(* create_vector_db as a sequence of steps, one per filesystem access, so  *)
(* that two requests can interleave exactly where the code touches the     *)
(* disk.  Spec lets one call run at a time, SpecD adds out-of-band damage   *)
(* to the files between calls and failing index builds, SpecC lets the    *)
(* calls of two requests overlap.  SpecK adds clear_vector_db.            *)
(*                                                                         *)
(* Around it: get_selection_fingerprint and load_documents on DATA_PATH    *)
(* (SpecF), generate_multi_queries and synthesize_requirements_for_query   *)
(* (SpecQ), and TestCaseGenerationAgent.process, which fingerprints the    *)
(* selection, ingests or reuses the index, retrieves the product context   *)
(* and calls the LLM (SpecP; SpecPF with failing steps; SpecPU with        *)
(* uploads while a request runs).                                          *)
(***************************************************************************)
EXTENDS Integers, Sequences, FiniteSets, TLC

\* ---------------------------------------------------------------- bounds
\* The clock runs from instant 0 to instant MaxTick.
MaxTick == 4
\* Segments one index directory holds at most.
MaxSegs == 2
\* Calls of create_vector_db made in one run when one call runs at a time.
MaxCalls == 3
\* Calls of create_vector_db made in one run when calls may overlap.
MaxOverlapCalls == 2
\* Modification times run from 1 to MaxMtime.
MaxMtime == 2
\* Names in a selection at most.
MaxSel == 2
\* Characters in the text the query-expansion model returns at most.
MaxContent == 3
\* The largest top_k.
MaxTopK == 2
\* Documents one similarity_search returns at most.
MaxDocs == 2
\* Requests TestCaseGenerationAgent.process serves.
MaxRequests == 2

\* ------------------------------------------------------------- constants
\* Clock instants per second: datetime.now() has sub-second resolution, the
\* "%Y%m%d_%H%M%S" format keeps whole seconds only.
TicksPerSec == 2
\* The index location DB_PATH = BASE_DIR/vectordb of earlier versions; every
\* other location is BASE_DIR/vectordb_<second>, named by its second.
Legacy == -1
\* DB_PATH is that location.
DB_PATH == Legacy
\* stored_db_path = None: no location.
NoPath == -2

Procs == {1, 2}
None == "None"
Fingerprints == {"F1", "F2"}
FingerprintArgs == Fingerprints \cup {None}
\* The segment lists a caller supplies: none, or one segment.
SegLists == {<< >>, <<"s">>}

\* strftime("%Y%m%d_%H%M%S"): the second an instant falls in.
Timestamp(t) == t \div TicksPerSec
Loc == {Legacy} \cup { Timestamp(t) : t \in 0..MaxTick }

\* A value of the `chunks` parameter: None or a list of segments.
NoChunks == [isNone |-> TRUE, list |-> << >>]
ChunkArgs == {NoChunks} \cup { [isNone |-> FALSE, list |-> s] : s \in SegLists }

\* An index directory: absent, or present with its segments; ok is FALSE for
\* a directory Chroma cannot open.
NoDir == [exists |-> FALSE, ok |-> TRUE, segs |-> << >>]
IndexDir(s) == [exists |-> TRUE, ok |-> TRUE, segs |-> s]

\* The cache file: absent, present but not a JSON object (empty, truncated,
\* malformed), or {"fingerprint": f, "db_path": l}.
NoCache == [state |-> "none", fingerprint |-> None, db_path |-> NoPath]
Garbage == [state |-> "garbage", fingerprint |-> None, db_path |-> NoPath]
CacheRecord(f, l) == [state |-> "record", fingerprint |-> f, db_path |-> l]

\* What a call gave its caller.
NoResult == [kind |-> "none", loc |-> NoPath, exc |-> "none"]
Returned(k, l) == [kind |-> k, loc |-> l, exc |-> "none"]
Raised(e) == [kind |-> "raise", loc |-> NoPath, exc |-> e]

\* A finished rebuild: its fingerprint, its location, how many segments it got.
NoCall == [fingerprint |-> None, loc |-> NoPath, n |-> 0]

VARIABLES
    clock,          \* the wall clock, in instants
    dirs,           \* the index directories under BASE_DIR
    cache,          \* the file at CACHE_PATH
    pc,             \* where each request is
    chunks,         \* create_vector_db's chunks argument
    fingerprint,    \* create_vector_db's fingerprint argument
    reuse_db,       \* local reuse_db
    stored_db_path, \* local stored_db_path
    new_db_path,    \* local new_db_path
    todo,           \* the names os.listdir returned that cleanup has yet to visit
    result,         \* what the call returned or raised
    preHit,         \* whether, when the call started, the cache file recorded the
                    \* requested fingerprint and an index that loads non-empty
    preRec,         \* the location the cache file recorded when the call started
    fresh,          \* whether new_db_path was absent from the disk when it was chosen
    touched,        \* whether the call has changed a directory or the cache file
    rmFailed,       \* whether a shutil.rmtree of this call's cleanup failed
    skipped,        \* the locations this call's cleanup failed to remove
    preFp,          \* the fingerprint the cache file recorded when the call started
    overlapped,     \* whether the call ran while another call was in progress
    lastWriter,     \* the request that wrote the cache file last (0: none)
    lastCall,       \* the rebuild, if the last call the caller saw end was one and
                    \* nothing touched the files since
    calls,          \* calls made so far
    \* get_selection_fingerprint and its caller
    data,               \* the entries of the directory DATA_PATH
    selected_documents, \* the caller's selection: None or its list object
    supplied,           \* the selection as the caller made it
    current_fingerprint,\* what get_selection_fingerprint returned
    files_to_load,      \* what load_documents made of the selection
    pcF,                \* where the caller of get_selection_fingerprint is
    \* synthesize_requirements_for_query
    query,              \* the query argument
    top_k,              \* the top_k argument
    multi_queries,      \* local multi_queries
    all_relevant_docs,  \* local all_relevant_docs
    seen_ids,           \* local seen_ids
    searched,           \* the variants similarity_search was called with
    retrieved,          \* the search results so far, one after the other
    hits,               \* what each similarity_search did: its documents, or raised
    relevant_docs,      \* local relevant_docs
    outcome,            \* what synthesize_requirements_for_query returned
    pcQ,                \* where synthesize_requirements_for_query is
    \* TestCaseGenerationAgent.process
    reuse_cache,        \* local reuse_cache
    documents,          \* local documents: the source of each loaded document
    summary_documents,  \* local summary_documents: the metadata of each summary
    all_chunks,         \* local all_chunks: the metadata of each segment
    product_context,    \* local product_context: which text it holds
    failed,             \* the steps of the retrieval stage that failed
    served,             \* the index location the context was retrieved from
    llm_calls,          \* calls of llm.generate_with_json_output
    requests,           \* requests made so far
    pcP                 \* where process is

\* The variables of create_vector_db and its callers.
rag == << clock, dirs, cache, pc, chunks, fingerprint, reuse_db, stored_db_path,
          new_db_path, todo, result, preHit, preRec, fresh, touched, rmFailed,
          skipped, preFp, overlapped, lastWriter, lastCall, calls >>
\* The variables of get_selection_fingerprint and its caller.
fpvars == << data, selected_documents, supplied, current_fingerprint,
             files_to_load, pcF >>
\* The variables of synthesize_requirements_for_query.
qvars == << query, top_k, multi_queries, all_relevant_docs, seen_ids, searched,
            retrieved, hits, relevant_docs, outcome, pcQ >>
\* The variables of TestCaseGenerationAgent.process.
pvars == << reuse_cache, documents, summary_documents, all_chunks, product_context,
            failed, served, llm_calls, requests, pcP >>
\* What create_vector_db leaves alone.
pure == << fpvars, qvars, pvars >>

vars == << rag, fpvars, qvars, pvars >>

locals == << reuse_db, stored_db_path, new_db_path, todo >>
args == << chunks, fingerprint >>
ghost == << preHit, preRec, fresh, rmFailed, skipped, preFp, overlapped >>
history == << ghost, lastWriter, lastCall, calls >>

\* A request is inside create_vector_db.
InCall(p) == pc[p] \notin {"idle", "using"}
Quiescent == \A p \in Procs : ~InCall(p)

\* `if fingerprint:` - None and the empty string are falsy.
Truthy(f) == f # None /\ f # ""

NoDirs == [l \in Loc |-> NoDir]

\* The HIT condition of a call with fingerprint f: the cache file records f
\* and a location that exists and loads with at least one segment.
ValidHit(f) ==
    /\ cache.state = "record"
    /\ cache.fingerprint = f
    /\ dirs[cache.db_path].exists
    /\ dirs[cache.db_path].ok
    /\ dirs[cache.db_path].segs # << >>

\* ------------------------------------- get_selection_fingerprint: values
\* The names DATA_PATH may hold, and their rank in Python's string order.
FileNames == {"a.md", "b.md"}
NameRank == [f \in FileNames |-> IF f = "a.md" THEN 1 ELSE 2]

\* An entry of DATA_PATH: absent, a regular file or a directory, with its
\* modification time.
NoEntry == [kind |-> "none", mtime |-> 0]
Entries == {NoEntry} \cup { [kind |-> k, mtime |-> t] : k \in {"file", "dir"}, t \in 1..MaxMtime }
Disks == [FileNames -> Entries]

\* A value of file_list / selected_documents: None or a list of names.
NameLists == UNION { [1..n -> FileNames] : n \in 0..MaxSel }
NoSelection == [isNone |-> TRUE, list |-> << >>]
Selections == {NoSelection} \cup { [isNone |-> FALSE, list |-> l] : l \in NameLists }

\* A fingerprint: the md5 of state_str, the hash taken as injective.
NoDigest == [none |-> TRUE, md5 |-> << >>]
Md5(state_str) == [none |-> FALSE, md5 |-> state_str]

\* No call of get_selection_fingerprint under way.
FpIdle ==
    /\ data = [f \in FileNames |-> NoEntry]
    /\ selected_documents = NoSelection
    /\ supplied = NoSelection
    /\ current_fingerprint = NoDigest
    /\ files_to_load = << >>
    /\ pcF = "idle"

\* ------------------------------ synthesize_requirements_for_query: values
\* Text is a sequence of characters.
Chars == {"a", "b", " ", "\n"}
Contents == UNION { [1..n -> Chars] : n \in 0..MaxContent }
\* The queries a caller asks: plain, with a trailing blank, empty.
Queries == { <<"a">>, <<"a", " ">>, << >> }
\* The page_content of the segments in the index.
Texts == {"x", "y"}
\* What one similarity_search returns.
SearchResults == UNION { [1..n -> Texts] : n \in 0..MaxDocs }

\* What one call of db.similarity_search did: returned docs, or raised.
Found(docs) == [raised |-> FALSE, docs |-> docs]
SearchError == [raised |-> TRUE, docs |-> << >>]

\* What synthesize_requirements_for_query returned: the synthesis made from
\* the context docs, the "No relevant documentation" message, or the
\* "Error retrieving relevant context" message.
NoOutcome == [kind |-> "none", docs |-> << >>]
Synthesis(docs) == [kind |-> "synthesis", docs |-> docs]
NothingFound == [kind |-> "nothing found", docs |-> << >>]
ErrorMessage == [kind |-> "error", docs |-> << >>]

\* No call of synthesize_requirements_for_query under way.
QIdle ==
    /\ query = << >>
    /\ top_k = 0
    /\ multi_queries = << >>
    /\ all_relevant_docs = << >>
    /\ seen_ids = {}
    /\ searched = << >>
    /\ retrieved = << >>
    /\ hits = << >>
    /\ relevant_docs = << >>
    /\ outcome = NoOutcome
    /\ pcQ = "idle"

\* ------------------------------------ TestCaseGenerationAgent.process: values
\* A metadata key that is not set.
Missing == "(missing)"
\* The metadata of a summary segment and of a raw chunk.
Summary(src, doc_type) == [source |-> src, layer |-> "document_summary", type |-> doc_type]
RawChunk(src) == [source |-> src, layer |-> "raw_chunk", type |-> Missing]
DocTypes == {"spec", "narrative"}

\* No request under way.
PIdle ==
    /\ reuse_cache = FALSE
    /\ documents = << >>
    /\ summary_documents = << >>
    /\ all_chunks = << >>
    /\ product_context = "unset"
    /\ failed = {}
    /\ served = NoPath
    /\ llm_calls = 0
    /\ requests = 0
    /\ pcP = "idle"

\* A fresh installation, or one upgraded from a version that kept its index
\* at DB_PATH; no cache file, no request running.
RagInit ==
    /\ clock = 0
    /\ dirs \in {NoDirs, [NoDirs EXCEPT ![Legacy] = IndexDir(<<"s">>)]}
    /\ cache = NoCache
    /\ pc = [p \in Procs |-> "idle"]
    /\ chunks = [p \in Procs |-> NoChunks]
    /\ fingerprint = [p \in Procs |-> None]
    /\ reuse_db = [p \in Procs |-> FALSE]
    /\ stored_db_path = [p \in Procs |-> NoPath]
    /\ new_db_path = [p \in Procs |-> NoPath]
    /\ todo = [p \in Procs |-> {}]
    /\ result = [p \in Procs |-> NoResult]
    /\ preHit = [p \in Procs |-> FALSE]
    /\ preRec = [p \in Procs |-> NoPath]
    /\ fresh = [p \in Procs |-> FALSE]
    /\ touched = [p \in Procs |-> FALSE]
    /\ rmFailed = [p \in Procs |-> FALSE]
    /\ skipped = [p \in Procs |-> {}]
    /\ preFp = [p \in Procs |-> None]
    /\ overlapped = [p \in Procs |-> FALSE]
    /\ lastWriter = 0
    /\ lastCall = NoCall
    /\ calls = 0

\* The state create_vector_db's specifications start from.
Init == RagInit /\ FpIdle /\ QIdle /\ PIdle

\* As RecordMatches, reading a key the cache file does not have.
RecordMatchesWrongKey(f) == cache.state = "record" /\ None = f

\* Lines 217-220: the cache file parses and its fingerprint is the argument.
RecordMatches(f) == cache.state = "record" /\ cache.fingerprint = f

\* As Usable, with the emptiness test inverted.
UsableInverted(d) == d.exists /\ d.ok /\ d.segs = << >>

\* Lines 230-236: Chroma opens the directory and db.get() has ids.
Usable(d) == d.exists /\ d.ok /\ d.segs # << >>

\* As NewRecord, recording DB_PATH instead of the path that was used.
NewRecordAtDbPath(p) == CacheRecord(fingerprint[p], Legacy)

\* Lines 287-290: the record json.dump writes.
NewRecord(p) == CacheRecord(fingerprint[p], new_db_path[p])

\* The step of request p changed a directory or the cache file.
Touch(p) == touched' = [touched EXCEPT ![p] = @ \/ dirs' # dirs \/ cache' # cache]

\* The call ends: it returns or raises r.
Finish(p, r) ==
    /\ pc' = [pc EXCEPT ![p] = "ret"]
    /\ result' = [result EXCEPT ![p] = r]

\* As Gate, without the test for chunks being None.
GateNoCheck(p) ==
    /\ pc' = [pc EXCEPT ![p] = "alloc"]
    /\ UNCHANGED result

\* Lines 249-250, reached with no cached index to return: without chunks the
\* call raises ValueError, with chunks it goes on to rebuild.
Gate(p) ==
    IF chunks[p].isNone
    THEN Finish(p, Raised("ValueError"))
    ELSE /\ pc' = [pc EXCEPT ![p] = "alloc"]
         /\ UNCHANGED result

\* A request calls create_vector_db(c.list or None, fingerprint=f).  With
\* exclusive, only when no other call is in progress.
Start(p, c, f, exclusive) ==
    /\ pc[p] = "idle"
    /\ exclusive => Quiescent
    /\ calls < (IF exclusive THEN MaxCalls ELSE MaxOverlapCalls)
    /\ calls' = calls + 1
    /\ pc' = [pc EXCEPT ![p] = "read"]
    /\ chunks' = [chunks EXCEPT ![p] = c]
    /\ fingerprint' = [fingerprint EXCEPT ![p] = f]
    /\ reuse_db' = [reuse_db EXCEPT ![p] = FALSE]
    /\ stored_db_path' = [stored_db_path EXCEPT ![p] = NoPath]
    /\ preHit' = [preHit EXCEPT ![p] = ValidHit(f)]
    /\ preRec' = [preRec EXCEPT ![p] = cache.db_path]
    /\ preFp' = [preFp EXCEPT ![p] = cache.fingerprint]
    /\ touched' = [touched EXCEPT ![p] = FALSE]
    /\ overlapped' = [q \in Procs |->
                        IF \E r \in Procs \ {p} : InCall(r)
                        THEN (q = p \/ InCall(q) \/ overlapped[q])
                        ELSE (q # p /\ overlapped[q])]
    /\ UNCHANGED << clock, dirs, cache, new_db_path, todo, result, fresh, rmFailed,
                    skipped, lastWriter, lastCall >>
    /\ UNCHANGED pure

\* Lines 212-226 and the branch at 228: read the cache file; the recorded
\* index is a candidate for reuse when the record parses, its fingerprint
\* equals the argument and its db_path exists.
ReadCache(p) ==
    /\ pc[p] = "read"
    /\ LET match == RecordMatches(fingerprint[p])
           sp == IF match THEN cache.db_path ELSE NoPath
           reuse == match /\ sp # NoPath /\ dirs[sp].exists
       IN /\ stored_db_path' = [stored_db_path EXCEPT ![p] = sp]
          /\ reuse_db' = [reuse_db EXCEPT ![p] = reuse]
          /\ IF reuse
             THEN /\ pc' = [pc EXCEPT ![p] = "load"]
                  /\ UNCHANGED result
             ELSE Gate(p)
    /\ UNCHANGED << clock, dirs, cache, args, new_db_path, todo, history >>
    /\ Touch(p)
    /\ UNCHANGED pure

\* Lines 228-246: open the recorded index and validate it.  A directory that
\* went away since line 222 is either refused by Chroma or created empty.
LoadCached(p) ==
    /\ pc[p] = "load"
    /\ LET sp == stored_db_path[p]
           d == dirs[sp]
       IN \E created \in BOOLEAN :
            /\ created => ~d.exists
            /\ dirs' = IF created THEN [dirs EXCEPT ![sp] = IndexDir(<< >>)] ELSE dirs
            /\ IF Usable(d)
               THEN \* line 241
                    /\ Finish(p, Returned("hit", sp))
                    /\ UNCHANGED reuse_db
               ELSE IF (d.exists /\ d.ok) \/ created
               THEN \* lines 237-238, then 249
                    /\ reuse_db' = [reuse_db EXCEPT ![p] = FALSE]
                    /\ Gate(p)
               ELSE \* lines 242-246, then 249
                    /\ UNCHANGED reuse_db
                    /\ Gate(p)
    /\ UNCHANGED << clock, cache, args, stored_db_path, new_db_path, todo, history >>
    /\ Touch(p)
    /\ UNCHANGED pure

\* Lines 252-253: datetime.now() is read, any time after the clock was last
\* read, and the new location is named by its second.
Alloc(p) ==
    /\ pc[p] = "alloc"
    /\ \E now \in clock..MaxTick :
        /\ clock' = now
        /\ new_db_path' = [new_db_path EXCEPT ![p] = Timestamp(now)]
        /\ fresh' = [fresh EXCEPT ![p] = ~dirs[Timestamp(now)].exists]
    /\ pc' = [pc EXCEPT ![p] = "build"]
    /\ UNCHANGED << dirs, cache, args, reuse_db, stored_db_path, todo, result,
                    preHit, preRec, rmFailed, skipped, preFp, overlapped, lastWriter,
                    lastCall, calls >>
    /\ Touch(p)
    /\ UNCHANGED pure

\* Lines 257-280: makedirs(exist_ok=True), then Chroma builds the index in
\* the directory; an index already there keeps its segments and gets the new
\* ones added.
Build(p) ==
    /\ pc[p] = "build"
    /\ LET l == new_db_path[p]
           d == dirs[l]
           old == IF d.exists THEN d.segs ELSE << >>
       IN /\ d.exists => d.ok
          /\ Len(old) + Len(chunks[p].list) <= MaxSegs
          /\ dirs' = [dirs EXCEPT ![l] = IndexDir(old \o chunks[p].list)]
    /\ pc' = [pc EXCEPT ![p] = IF Truthy(fingerprint[p]) THEN "write" ELSE "list"]
    /\ UNCHANGED << clock, cache, args, locals, result, history >>
    /\ Touch(p)
    /\ UNCHANGED pure

\* Lines 257-280 and 312-320: the build raises; the directory makedirs made
\* stays.  It raises before anything was added (the embedding call fails, or
\* Chroma cannot open the directory), or after chunks were added (a later
\* batch fails to embed or to be stored, or persist() fails).
BuildFails(p) ==
    /\ pc[p] = "build"
    /\ LET l == new_db_path[p]
           d == dirs[l]
           old == IF d.exists THEN d.segs ELSE << >>
       IN \E added \in BOOLEAN :
            /\ added => /\ d.exists => d.ok
                        /\ chunks[p].list # << >>
                        /\ Len(old) + Len(chunks[p].list) <= MaxSegs
            /\ dirs' = [dirs EXCEPT ![l] =
                          IF added THEN IndexDir(old \o chunks[p].list)
                          ELSE IF d.exists THEN d ELSE IndexDir(<< >>)]
    /\ Finish(p, Raised("BuildError"))
    /\ UNCHANGED << clock, cache, args, locals, history >>
    /\ Touch(p)
    /\ UNCHANGED pure

\* Line 286: open(CACHE_PATH, 'w') truncates the file.
OpenCache(p) ==
    /\ pc[p] = "write"
    /\ cache' = Garbage
    /\ pc' = [pc EXCEPT ![p] = "dump"]
    /\ UNCHANGED << clock, dirs, args, locals, result, history >>
    /\ Touch(p)
    /\ UNCHANGED pure

\* Lines 287-290: json.dump writes the record.
DumpCache(p) ==
    /\ pc[p] = "dump"
    /\ cache' = NewRecord(p)
    /\ lastWriter' = p
    /\ pc' = [pc EXCEPT ![p] = "list"]
    /\ UNCHANGED << clock, dirs, args, locals, result, ghost, lastCall, calls >>
    /\ Touch(p)
    /\ UNCHANGED pure

\* Line 298: os.listdir(BASE_DIR).
ListDir(p) ==
    /\ pc[p] = "list"
    /\ todo' = [todo EXCEPT ![p] = { l \in Loc : dirs[l].exists }]
    /\ pc' = [pc EXCEPT ![p] = "rm"]
    /\ UNCHANGED << clock, dirs, cache, args, reuse_db, stored_db_path,
                    new_db_path, result, history >>
    /\ Touch(p)
    /\ UNCHANGED pure

\* As IsOrphan, without the test for the name "vectordb".
IsOrphanTimestamped(p, l) == dirs[l].exists /\ l # new_db_path[p] /\ l # Legacy

\* Line 300-301: the item is an index directory other than the one just built.
IsOrphan(p, l) == dirs[l].exists /\ l # new_db_path[p]

\* Another request has the index at l open: it got it from its call and
\* still queries it, or it is building it.
HeldByOther(p, l) ==
    \E q \in Procs \ {p} :
        \/ pc[q] \in {"ret", "using"} /\ result[q].kind # "raise" /\ result[q].loc = l
        \/ pc[q] \in {"write", "dump", "list", "rm"} /\ new_db_path[q] = l

\* As Rest, with the removal's failure ending the loop (no inner except).
RestNoneAfterFailure(p, l, removed) == IF removed THEN todo[p] \ {l} ELSE {}

\* Lines 299-306: whether or not the item was removed, the loop goes on with
\* the items after it.
Rest(p, l, removed) == todo[p] \ {l}

\* Lines 299-306, one item of the listing (in the order the OS listed them):
\* an orphan is removed; shutil.rmtree may fail on a directory another
\* request holds open (the platform decides), which is ignored.
Remove(p) ==
    /\ pc[p] = "rm"
    /\ \E l \in todo[p] :
        IF IsOrphan(p, l)
           THEN \E removed \in BOOLEAN :
                  /\ ~removed => HeldByOther(p, l)
                  /\ todo' = [todo EXCEPT ![p] = Rest(p, l, removed)]
                  /\ dirs' = IF removed THEN [dirs EXCEPT ![l] = NoDir] ELSE dirs
                  /\ rmFailed' = [rmFailed EXCEPT ![p] = @ \/ ~removed]
                  /\ skipped' = [skipped EXCEPT ![p] = IF removed THEN @ ELSE @ \cup {l}]
           ELSE /\ todo' = [todo EXCEPT ![p] = Rest(p, l, TRUE)]
                /\ UNCHANGED << dirs, rmFailed, skipped >>
    /\ UNCHANGED << clock, cache, pc, args, reuse_db, stored_db_path, new_db_path,
                    result, preHit, preRec, preFp, fresh, overlapped, lastWriter,
                    lastCall, calls >>
    /\ Touch(p)
    /\ UNCHANGED pure

\* Line 310: return db.
Return(p) ==
    /\ pc[p] = "rm"
    /\ todo[p] = {}
    /\ Finish(p, Returned("rebuilt", new_db_path[p]))
    /\ UNCHANGED << clock, dirs, cache, args, locals, history >>
    /\ Touch(p)
    /\ UNCHANGED pure

\* What the caller has seen end: a rebuild, or something else.
Seen(p) ==
    IF result[p].kind = "rebuilt"
    THEN [fingerprint |-> fingerprint[p], loc |-> result[p].loc, n |-> Len(chunks[p].list)]
    ELSE NoCall

\* The caller got an index and queries it (synthesize_requirements_for_query).
Use(p) ==
    /\ pc[p] = "ret"
    /\ result[p].kind # "raise"
    /\ pc' = [pc EXCEPT ![p] = "using"]
    /\ lastCall' = Seen(p)
    /\ preHit' = [preHit EXCEPT ![p] = FALSE]
    /\ preRec' = [preRec EXCEPT ![p] = NoPath]
    /\ fresh' = [fresh EXCEPT ![p] = FALSE]
    /\ touched' = [touched EXCEPT ![p] = FALSE]
    /\ rmFailed' = [rmFailed EXCEPT ![p] = FALSE]
    /\ skipped' = [skipped EXCEPT ![p] = {}]
    /\ preFp' = [preFp EXCEPT ![p] = None]
    /\ overlapped' = [overlapped EXCEPT ![p] = FALSE]
    /\ chunks' = [chunks EXCEPT ![p] = NoChunks]
    /\ fingerprint' = [fingerprint EXCEPT ![p] = None]
    /\ reuse_db' = [reuse_db EXCEPT ![p] = FALSE]
    /\ stored_db_path' = [stored_db_path EXCEPT ![p] = NoPath]
    /\ new_db_path' = [new_db_path EXCEPT ![p] = NoPath]
    /\ lastWriter' = IF lastWriter = p THEN 0 ELSE lastWriter
    /\ UNCHANGED << clock, dirs, cache, todo, result, calls >>
    /\ UNCHANGED pure

\* The request is over: its index handle and its locals are dropped.
Forget(p) ==
    /\ pc' = [pc EXCEPT ![p] = "idle"]
    /\ chunks' = [chunks EXCEPT ![p] = NoChunks]
    /\ fingerprint' = [fingerprint EXCEPT ![p] = None]
    /\ reuse_db' = [reuse_db EXCEPT ![p] = FALSE]
    /\ stored_db_path' = [stored_db_path EXCEPT ![p] = NoPath]
    /\ new_db_path' = [new_db_path EXCEPT ![p] = NoPath]
    /\ todo' = [todo EXCEPT ![p] = {}]
    /\ result' = [result EXCEPT ![p] = NoResult]
    /\ preHit' = [preHit EXCEPT ![p] = FALSE]
    /\ preRec' = [preRec EXCEPT ![p] = NoPath]
    /\ fresh' = [fresh EXCEPT ![p] = FALSE]
    /\ touched' = [touched EXCEPT ![p] = FALSE]
    /\ rmFailed' = [rmFailed EXCEPT ![p] = FALSE]
    /\ skipped' = [skipped EXCEPT ![p] = {}]
    /\ preFp' = [preFp EXCEPT ![p] = None]
    /\ overlapped' = [overlapped EXCEPT ![p] = FALSE]
    /\ lastWriter' = IF lastWriter = p THEN 0 ELSE lastWriter
    /\ UNCHANGED << clock, dirs, cache, calls >>
    /\ UNCHANGED pure

\* The caller catches what create_vector_db raised.
Caught(p) ==
    /\ pc[p] = "ret"
    /\ result[p].kind = "raise"
    /\ lastCall' = NoCall
    /\ Forget(p)

\* The caller is done with the index.
Release(p) ==
    /\ pc[p] = "using"
    /\ UNCHANGED lastCall
    /\ Forget(p)

AllIdle == \A p \in Procs : pc[p] = "idle"

\* clear_vector_db, run between requests: DB_PATH is removed if it exists;
\* the other two steps remove __pycache__ and the items of BASE_DIR whose
\* name holds ".chroma" or starts with "chroma", none of which is an index
\* location or the cache file.
ClearVectorDb ==
    /\ AllIdle
    /\ dirs' = IF dirs[DB_PATH].exists THEN [dirs EXCEPT ![DB_PATH] = NoDir] ELSE dirs
    /\ lastCall' = NoCall
    /\ UNCHANGED << clock, cache, pc, args, locals, result, ghost, touched, lastWriter, calls >>
    /\ UNCHANGED pure

\* Between requests somebody deletes an index directory.
OobDelete ==
    /\ AllIdle
    /\ \E l \in Loc :
        /\ dirs[l].exists
        /\ dirs' = [dirs EXCEPT ![l] = NoDir]
    /\ lastCall' = NoCall
    /\ UNCHANGED << clock, cache, pc, args, locals, result, ghost, touched, lastWriter, calls >>
    /\ UNCHANGED pure

\* Between requests an index directory is damaged so that Chroma cannot open it.
OobCorrupt ==
    /\ AllIdle
    /\ \E l \in Loc :
        /\ dirs[l].exists
        /\ dirs[l].ok
        /\ dirs' = [dirs EXCEPT ![l].ok = FALSE]
    /\ lastCall' = NoCall
    /\ UNCHANGED << clock, cache, pc, args, locals, result, ghost, touched, lastWriter, calls >>
    /\ UNCHANGED pure

\* Between requests the cache file is damaged.
OobGarble ==
    /\ AllIdle
    /\ cache.state = "record"
    /\ cache' = Garbage
    /\ lastCall' = NoCall
    /\ UNCHANGED << clock, dirs, pc, args, locals, result, ghost, touched, lastWriter, calls >>
    /\ UNCHANGED pure

CallSeq == \E p \in Procs, c \in ChunkArgs, f \in FingerprintArgs : Start(p, c, f, TRUE)
CallAnyTime == \E p \in Procs, c \in ChunkArgs, f \in FingerprintArgs : Start(p, c, f, FALSE)

Step ==
    \E p \in Procs :
        \/ ReadCache(p)
        \/ LoadCached(p)
        \/ Alloc(p)
        \/ Build(p)
        \/ OpenCache(p)
        \/ DumpCache(p)
        \/ ListDir(p)
        \/ Remove(p)
        \/ Return(p)
        \/ Use(p)
        \/ Caught(p)
        \/ Release(p)

Damage == OobDelete \/ OobCorrupt \/ OobGarble
Fault == \E p \in Procs : BuildFails(p)

\* One call of create_vector_db at a time, the files touched by nothing else;
\* a request that got an index keeps using it while another request calls.
Next == CallSeq \/ Step
Spec == Init /\ [][Next]_vars

\* One call at a time, the files damaged out-of-band between requests and
\* index builds that fail.
NextD == CallSeq \/ Step \/ Damage \/ Fault
SpecD == Init /\ [][NextD]_vars

\* One call at a time, and clear_vector_db run between requests.
NextK == CallSeq \/ Step \/ ClearVectorDb
SpecK == Init /\ [][NextK]_vars

\* The calls of two requests may overlap.
NextC == CallAnyTime \/ Step
SpecC == Init /\ [][NextC]_vars

TypeOK ==
    /\ clock \in 0..MaxTick
    /\ \A l \in Loc : dirs[l].exists \in BOOLEAN
    /\ cache.state \in {"none", "garbage", "record"}

\* ------------------------------------------- get_selection_fingerprint
Range(s) == { s[i] : i \in 1..Len(s) }

\* list.sort() on names: ascending, duplicates kept.
RECURSIVE InsertName(_, _)
InsertName(f, s) ==
    IF s = << >> THEN <<f>>
    ELSE IF NameRank[f] <= NameRank[Head(s)] THEN <<f>> \o s
         ELSE <<Head(s)>> \o InsertName(f, Tail(s))
RECURSIVE SortNames(_)
SortNames(s) == IF s = << >> THEN << >> ELSE InsertName(Head(s), SortNames(Tail(s)))

\* Line 53: the regular files of DATA_PATH, in any order os.listdir gives.
Listings(d) ==
    LET files == { f \in FileNames : d[f].kind = "file" }
    IN { l \in [1..Cardinality(files) -> files] :
            \A i, j \in 1..Cardinality(files) : i # j => l[i] # l[j] }

\* As Exists, with every name taken to exist (getmtime of a missing one
\* giving 0).
ExistsAlways(d, f) == TRUE

\* Line 61: os.path.exists(p).
Exists(d, f) == d[f].kind # "none"

\* Line 62: state[f] = mtime on a dict, which keeps its keys in the order
\* they were first set.
SetItem(state, f, t) ==
    IF \E i \in 1..Len(state) : state[i][1] = f
    THEN [i \in 1..Len(state) |-> IF state[i][1] = f THEN <<f, t>> ELSE state[i]]
    ELSE Append(state, <<f, t>>)

\* Lines 58-62: the dict built from the names in file_list that exist.
RECURSIVE StateOf(_, _)
StateOf(d, file_list) ==
    IF file_list = << >> THEN << >>
    ELSE LET n == Len(file_list)
             f == file_list[n]
             state == StateOf(d, SubSeq(file_list, 1, n - 1))
         IN IF Exists(d, f) THEN SetItem(state, f, d[f].mtime) ELSE state

\* Line 65: json.dumps(state, sort_keys=True): the items in key order.
Dumps(state) ==
    LET keys == SortNames([i \in 1..Len(state) |-> state[i][1]])
        item(k) == state[CHOOSE i \in 1..Len(state) : state[i][1] = k]
    IN [i \in 1..Len(state) |-> item(keys[i])]

\* As SelectionFingerprint, hashing the state in the order of file_list:
\* no sort(), no sort_keys.
FingerprintAsListed(d, file_list) == Md5(StateOf(d, file_list))

\* Lines 56-66: what get_selection_fingerprint returns for the names
\* file_list (given, or listed at line 53) on the disk d.
SelectionFingerprint(d, file_list) == Md5(Dumps(StateOf(d, SortNames(file_list))))

\* The caller's current_fingerprint = get_selection_fingerprint(
\* file_list=selected_documents): line 56 sorts the list object it was given.
GetSelectionFingerprint ==
    /\ pcF = "idle"
    /\ IF selected_documents.isNone
       THEN /\ \E listing \in Listings(data) :
                 current_fingerprint' = SelectionFingerprint(data, listing)
            /\ UNCHANGED selected_documents
       ELSE /\ current_fingerprint' = SelectionFingerprint(data, selected_documents.list)
            /\ selected_documents' =
                 [selected_documents EXCEPT !.list = SortNames(selected_documents.list)]
    /\ pcF' = "fingerprinted"
    /\ UNCHANGED << data, supplied, files_to_load >>
    /\ UNCHANGED << rag, qvars, pvars >>

\* The caller goes on to load_documents(file_list=selected_documents), which
\* keeps the names that are regular files, in the order of the list.
LoadDocuments ==
    /\ pcF = "fingerprinted"
    /\ IF selected_documents.isNone
       THEN \E listing \in Listings(data) : files_to_load' = listing
       ELSE files_to_load' = SelectSeq(selected_documents.list,
                                       LAMBDA f : data[f].kind = "file")
    /\ pcF' = "loaded"
    /\ UNCHANGED << data, selected_documents, supplied, current_fingerprint >>
    /\ UNCHANGED << rag, qvars, pvars >>

\* Any disk, any selection; no index, no cache file.
InitF ==
    /\ RagInit
    /\ dirs = NoDirs
    /\ QIdle
    /\ PIdle
    /\ data \in Disks
    /\ selected_documents \in Selections
    /\ supplied = selected_documents
    /\ current_fingerprint = NoDigest
    /\ files_to_load = << >>
    /\ pcF = "idle"

\* One request fingerprints its selection and loads it.
NextF == GetSelectionFingerprint \/ LoadDocuments
SpecF == InitF /\ [][NextF]_vars

\* ------------------------------------------------ generate_multi_queries
IsSpace(c) == c \in {" ", "\n"}

\* str.strip(): leading and trailing whitespace removed.
RECURSIVE LStrip(_)
LStrip(t) == IF t # << >> /\ IsSpace(Head(t)) THEN LStrip(Tail(t)) ELSE t
RECURSIVE RStrip(_)
RStrip(t) ==
    IF t # << >> /\ IsSpace(t[Len(t)]) THEN RStrip(SubSeq(t, 1, Len(t) - 1)) ELSE t
Strip(t) == RStrip(LStrip(t))

\* str.split("\n"): the pieces between the newlines, empty ones included.
RECURSIVE Split(_)
Split(t) ==
    IF \E i \in 1..Len(t) : t[i] = "\n"
    THEN LET i == CHOOSE j \in 1..Len(t) : t[j] = "\n" /\ \A k \in 1..(j - 1) : t[k] # "\n"
         IN <<SubSeq(t, 1, i - 1)>> \o Split(SubSeq(t, i + 1, Len(t)))
    ELSE <<t>>

\* Line 416: the stripped pieces that are not empty.
RECURSIVE StrippedLines(_)
StrippedLines(pieces) ==
    IF pieces = << >> THEN << >>
    ELSE LET q == Strip(Head(pieces))
         IN (IF q # << >> THEN <<q>> ELSE << >>) \o StrippedLines(Tail(pieces))

\* As EnsureOriginal, never appending.
EnsureOriginalNever(queries, q) == queries

\* Lines 418-419: the original query is appended unless a line equals it.
EnsureOriginal(queries, q) ==
    IF \E i \in 1..Len(queries) : queries[i] = q THEN queries ELSE Append(queries, q)

\* Lines 414-422: what generate_multi_queries returns when the model
\* answered with content.
GenerateMultiQueries(q, content) == EnsureOriginal(StrippedLines(Split(content)), q)

\* --------------------------------- synthesize_requirements_for_query
\* hash(doc.page_content), taken as injective on the texts of the index.
TextHash(t) == IF t = "x" THEN 1 ELSE 2

\* As Unseen, with every document taken as new.
UnseenAlways(h, seen) == TRUE

\* Line 463: content_hash not in seen_ids.
Unseen(h, seen) == h \notin seen

\* Lines 460-465: the documents of one search added to the list, those whose
\* hash was seen left out.  The result is <<all_relevant_docs, seen_ids>>.
RECURSIVE Merge(_, _, _)
Merge(all, seen, docs) ==
    IF docs = << >> THEN <<all, seen>>
    ELSE LET doc == Head(docs)
             content_hash == TextHash(doc)
         IN IF Unseen(content_hash, seen)
            THEN Merge(Append(all, doc), seen \cup {content_hash}, Tail(docs))
            ELSE Merge(all, seen, Tail(docs))

\* Line 473: all_relevant_docs[:top_k], top_k >= 0.
Limit(docs, k) == SubSeq(docs, 1, IF k < Len(docs) THEN k ELSE Len(docs))

\* Line 449: generate_multi_queries returns the variants made from what the
\* model answered.
Expand ==
    /\ pcQ = "expand"
    /\ \E content \in Contents : multi_queries' = GenerateMultiQueries(query, content)
    /\ pcQ' = "search"
    /\ UNCHANGED << query, top_k, all_relevant_docs, seen_ids, searched, retrieved, hits,
                    relevant_docs, outcome >>
    /\ UNCHANGED << rag, fpvars, pvars >>

\* Lines 414, 449 and 517-520: llm.invoke raises inside generate_multi_queries,
\* which catches nothing; the handler of synthesize_requirements_for_query
\* returns the error message.
ExpandFails ==
    /\ pcQ = "expand"
    /\ outcome' = ErrorMessage
    /\ pcQ' = "done"
    /\ UNCHANGED << query, top_k, multi_queries, all_relevant_docs, seen_ids, searched,
                    retrieved, hits, relevant_docs >>
    /\ UNCHANGED << rag, fpvars, pvars >>

\* Lines 455-465: the next variant is searched and its documents are merged.
Search ==
    /\ pcQ = "search"
    /\ Len(searched) < Len(multi_queries)
    /\ \E docs \in SearchResults :
        LET merged == Merge(all_relevant_docs, seen_ids, docs)
        IN /\ all_relevant_docs' = merged[1]
           /\ seen_ids' = merged[2]
           /\ retrieved' = retrieved \o docs
           /\ hits' = Append(hits, Found(docs))
    /\ searched' = Append(searched, multi_queries[Len(searched) + 1])
    /\ UNCHANGED << query, top_k, multi_queries, relevant_docs, outcome, pcQ >>
    /\ UNCHANGED << rag, fpvars, pvars >>

\* As AfterSearchError, with the documents collected so far dropped.
AfterSearchErrorDrops(all) == << >>

\* Lines 466-468: the handler of a failed search prints the error and leaves
\* all_relevant_docs as it is.
AfterSearchError(all) == all

\* Lines 458 and 466-468: the search of the next variant raises; the error is
\* printed and the loop goes on.
SearchFails ==
    /\ pcQ = "search"
    /\ Len(searched) < Len(multi_queries)
    /\ searched' = Append(searched, multi_queries[Len(searched) + 1])
    /\ hits' = Append(hits, SearchError)
    /\ all_relevant_docs' = AfterSearchError(all_relevant_docs)
    /\ UNCHANGED << query, top_k, multi_queries, seen_ids,
                    retrieved, relevant_docs, outcome, pcQ >>
    /\ UNCHANGED << rag, fpvars, pvars >>

\* Lines 473-485: the list is cut to top_k; with nothing left the "No
\* relevant documentation" message is returned.
Truncate ==
    /\ pcQ = "search"
    /\ Len(searched) = Len(multi_queries)
    /\ relevant_docs' = Limit(all_relevant_docs, top_k)
    /\ IF relevant_docs' = << >>
       THEN outcome' = NothingFound /\ pcQ' = "done"
       ELSE pcQ' = "synthesize" /\ UNCHANGED outcome
    /\ UNCHANGED << query, top_k, multi_queries, all_relevant_docs, seen_ids, searched,
                    retrieved, hits >>
    /\ UNCHANGED << rag, fpvars, pvars >>

\* Lines 488-515: the context is joined from relevant_docs and the model
\* synthesizes the answer.
Synthesize ==
    /\ pcQ = "synthesize"
    /\ outcome' = Synthesis(relevant_docs)
    /\ pcQ' = "done"
    /\ UNCHANGED << query, top_k, multi_queries, all_relevant_docs, seen_ids, searched,
                    retrieved, hits, relevant_docs >>
    /\ UNCHANGED << rag, fpvars, pvars >>

\* Lines 514 and 517-520: the synthesis call raises; the error message is
\* returned.
SynthesizeFails ==
    /\ pcQ = "synthesize"
    /\ outcome' = ErrorMessage
    /\ pcQ' = "done"
    /\ UNCHANGED << query, top_k, multi_queries, all_relevant_docs, seen_ids, searched,
                    retrieved, hits, relevant_docs >>
    /\ UNCHANGED << rag, fpvars, pvars >>

\* synthesize_requirements_for_query is called with any query and top_k.
InitQ ==
    /\ RagInit
    /\ dirs = NoDirs
    /\ FpIdle
    /\ PIdle
    /\ query \in Queries
    /\ top_k \in 0..MaxTopK
    /\ multi_queries = << >>
    /\ all_relevant_docs = << >>
    /\ seen_ids = {}
    /\ searched = << >>
    /\ retrieved = << >>
    /\ hits = << >>
    /\ relevant_docs = << >>
    /\ outcome = NoOutcome
    /\ pcQ = "expand"

NextQ ==
    \/ ExpandFails \/ Expand \/ SearchFails \/ Search \/ Truncate
    \/ SynthesizeFails \/ Synthesize
SpecQ == InitQ /\ [][NextQ]_vars

\* ------------------------------------------ TestCaseGenerationAgent.process
\* The request that runs process.
Agent == 1

\* The selections the requests are made with: None, the empty list, one
\* document, two documents, one document named twice.
ProcessSelections ==
    {NoSelection} \cup
    { [isNone |-> FALSE, list |-> l] :
        l \in { << >>, <<"a.md">>, <<"b.md", "a.md">>, <<"a.md", "a.md">> } }

\* hashlib.md5(...).hexdigest() at line 66: the digest as a string, the hash
\* taken as injective.
HexDigest(digest) == ToString(digest.md5)

\* What is given to create_vector_db for all_chunks: the index model keeps
\* one kind of segment.
ChunkArg(segments) ==
    [isNone |-> FALSE, list |-> IF segments = << >> THEN << >> ELSE <<"s">>]

\* Lines 164-168 and 217-221: the keys of docs_by_source, in the order they
\* were first set.
RECURSIVE DocsBySource(_)
DocsBySource(docs) ==
    IF docs = << >> THEN << >>
    ELSE LET front == SubSeq(docs, 1, Len(docs) - 1)
             keys == DocsBySource(front)
             src == docs[Len(docs)]
         IN IF src \in Range(keys) THEN keys ELSE Append(keys, src)

\* Line 184 and 228: split_documents gives the chunks of each document, with
\* the document's metadata.
RawChunks(docs) == [i \in 1..Len(docs) |-> RawChunk(docs[i])]

\* Lines 176-180: the metadata of a summary made on the ingestion path.
SummaryMetadata(src, doc_type) == Summary(src, doc_type)

\* Line 226: the metadata of a summary made on the re-ingestion path.
ResummaryMetadata(src, doc_type) == Summary(src, Missing)

\* Between two requests.
Between == pcP = "idle"

\* As OnException, with no handler: the exception leaves process.
OnExceptionPropagates == "raised"

\* Lines 111 and 250: where an exception raised in the retrieval stage goes,
\* the except clause of the try that holds the whole stage.
OnException == "handler"

\* As AfterCacheError, with no re-ingestion: the cache error is raised again.
AfterCacheErrorRaise(docs) == OnException

\* Lines 212 and 231-232: after a failed cache load, documents that loaded
\* are ingested; with none the cache error is raised again.
AfterCacheError(docs) == IF docs # << >> THEN "resummarize" ELSE OnException

\* process(input_data, selected_documents) is called.
StartProcess ==
    /\ Between
    /\ AllIdle
    /\ requests < MaxRequests
    /\ requests' = requests + 1
    /\ \E sel \in ProcessSelections :
        /\ selected_documents' = sel
        /\ supplied' = sel
    /\ pcP' = "fingerprint"
    /\ UNCHANGED << data, current_fingerprint, files_to_load, pcF >>
    /\ UNCHANGED << reuse_cache, documents, summary_documents, all_chunks,
                    product_context, failed, served, llm_calls >>
    /\ UNCHANGED << rag, qvars >>

\* process has returned or raised: its locals are gone.
EndProcess ==
    /\ pcP \in {"done", "raised"}
    /\ pc[Agent] = "idle"
    /\ selected_documents' = NoSelection
    /\ supplied' = NoSelection
    /\ current_fingerprint' = NoDigest
    /\ files_to_load' = << >>
    /\ reuse_cache' = FALSE
    /\ documents' = << >>
    /\ summary_documents' = << >>
    /\ all_chunks' = << >>
    /\ product_context' = "unset"
    /\ failed' = {}
    /\ served' = NoPath
    /\ llm_calls' = 0
    /\ pcP' = "idle"
    /\ UNCHANGED << data, pcF, requests >>
    /\ UNCHANGED << rag, qvars >>

\* Line 128: current_fingerprint = get_selection_fingerprint(
\* file_list=selected_documents).
Fingerprint ==
    /\ pcP = "fingerprint"
    /\ IF selected_documents.isNone
       THEN /\ \E listing \in Listings(data) :
                 current_fingerprint' = SelectionFingerprint(data, listing)
            /\ UNCHANGED selected_documents
       ELSE /\ current_fingerprint' = SelectionFingerprint(data, selected_documents.list)
            /\ selected_documents' =
                 [selected_documents EXCEPT !.list = SortNames(selected_documents.list)]
    /\ pcP' = "cache"
    /\ UNCHANGED << data, supplied, files_to_load, pcF >>
    /\ UNCHANGED << reuse_cache, documents, summary_documents, all_chunks,
                    product_context, failed, served, llm_calls, requests >>
    /\ UNCHANGED << rag, qvars >>

\* Lines 53 and 250: with no selection and no DATA_PATH directory,
\* os.listdir raises inside get_selection_fingerprint.
FingerprintFails ==
    /\ pcP = "fingerprint"
    /\ selected_documents.isNone
    /\ \A f \in FileNames : data[f].kind = "none"
    /\ failed' = failed \cup {"fingerprint"}
    /\ pcP' = OnException
    /\ UNCHANGED fpvars
    /\ UNCHANGED << reuse_cache, documents, summary_documents, all_chunks,
                    product_context, served, llm_calls, requests >>
    /\ UNCHANGED << rag, qvars >>

\* Lines 131-139: the cache file is read; a file that does not parse is
\* ignored.
ReadCachedFingerprint ==
    /\ pcP = "cache"
    /\ LET hit == cache.state = "record" /\ cache.fingerprint = HexDigest(current_fingerprint)
       IN /\ reuse_cache' = hit
          /\ pcP' = IF hit THEN "hit" ELSE "load"
    /\ failed' = IF cache.state = "garbage" THEN failed \cup {"cache read"} ELSE failed
    /\ UNCHANGED fpvars
    /\ UNCHANGED << documents, summary_documents, all_chunks, product_context,
                    served, llm_calls, requests >>
    /\ UNCHANGED << rag, qvars >>

\* load_documents(file_list=selected_documents), lines 85-133: the files to
\* load, and the documents of those that load; a file that fails to load is
\* skipped.  The result is <<files_to_load, documents>>.
Loads ==
    { <<files, SelectSeq(files, LAMBDA f : f \in ok)>> :
        files \in (IF selected_documents.isNone
                   THEN Listings(data)
                   ELSE { SelectSeq(selected_documents.list,
                                    LAMBDA f : data[f].kind = "file") }),
        ok \in SUBSET FileNames }

\* Lines 143-158: the documents are loaded; with none, the context says why.
Load ==
    /\ pcP = "load"
    /\ \E l \in Loads :
        /\ files_to_load' = l[1]
        /\ documents' = l[2]
        /\ failed' = IF Len(l[2]) < Len(l[1]) THEN failed \cup {"load"} ELSE failed
    /\ IF documents' = << >>
       THEN /\ product_context' =
                 IF ~selected_documents.isNone /\ Len(selected_documents.list) = 0
                 THEN "Unable: no documents selected"
                 ELSE IF ~selected_documents.isNone
                 THEN "Unable: none of the selected documents could be loaded"
                 ELSE "Unable: no documents found"
            /\ pcP' = "prompt"
       ELSE /\ UNCHANGED product_context
            /\ pcP' = "summarize"
    /\ UNCHANGED << data, selected_documents, supplied, current_fingerprint, pcF >>
    /\ UNCHANGED << reuse_cache, summary_documents, all_chunks, served, llm_calls,
                    requests >>
    /\ UNCHANGED << rag, qvars >>

\* Lines 160-185: one summary per key of docs_by_source, then the raw chunks
\* and the summaries together.
Summarize ==
    /\ pcP = "summarize"
    /\ \E doc_type \in [FileNames -> DocTypes] :
        LET sources == DocsBySource(documents)
        IN summary_documents' =
             [i \in 1..Len(sources) |-> SummaryMetadata(sources[i], doc_type[sources[i]])]
    /\ all_chunks' = RawChunks(documents) \o summary_documents'
    /\ pcP' = "index"
    /\ UNCHANGED fpvars
    /\ UNCHANGED << reuse_cache, documents, product_context, failed, served,
                    llm_calls, requests >>
    /\ UNCHANGED << rag, qvars >>

\* Lines 173 and 250: summarize_document raises (its llm.invoke at line 169
\* is not guarded) and nothing between it and the handler at 250 catches.
SummarizeFails ==
    /\ pcP = "summarize"
    /\ failed' = failed \cup {"summarize"}
    /\ pcP' = OnException
    /\ UNCHANGED fpvars
    /\ UNCHANGED << reuse_cache, documents, summary_documents, all_chunks,
                    product_context, served, llm_calls, requests >>
    /\ UNCHANGED << rag, qvars >>

\* Line 194: create_vector_db(all_chunks, fingerprint=current_fingerprint).
Index ==
    /\ pcP = "index"
    /\ Start(Agent, ChunkArg(all_chunks), HexDigest(current_fingerprint), TRUE)

\* Line 203: create_vector_db(None, fingerprint=current_fingerprint).
LoadFromCache ==
    /\ pcP = "hit"
    /\ Start(Agent, NoChunks, HexDigest(current_fingerprint), TRUE)

\* Line 230: create_vector_db(all_chunks, fingerprint=current_fingerprint).
Reindex ==
    /\ pcP = "reindex"
    /\ Start(Agent, ChunkArg(all_chunks), HexDigest(current_fingerprint), TRUE)

\* Lines 194-195, 203-204 and 230: the call returned an index.
GotIndex ==
    /\ pcP \in {"index", "hit", "reindex"}
    /\ pc[Agent] = "ret"
    /\ result[Agent].kind # "raise"
    /\ pcP' = "retrieve"
    /\ UNCHANGED fpvars
    /\ UNCHANGED << reuse_cache, documents, summary_documents, all_chunks,
                    product_context, failed, served, llm_calls, requests >>
    /\ UNCHANGED << rag, qvars >>

\* Lines 196-198 and 230: the call for a rebuild raised; the exception goes
\* to the handler at line 250.
IndexRaised ==
    /\ pcP \in {"index", "reindex"}
    /\ pc[Agent] = "ret"
    /\ result[Agent].kind = "raise"
    /\ failed' = failed \cup {"build"}
    /\ pcP' = OnException
    /\ UNCHANGED fpvars
    /\ UNCHANGED << reuse_cache, documents, summary_documents, all_chunks,
                    product_context, served, llm_calls, requests >>
    /\ UNCHANGED << rag, qvars >>

\* Lines 205-209: loading the cached index raised; ingestion is forced.
CacheLoadRaised ==
    /\ pcP = "hit"
    /\ pc[Agent] = "ret"
    /\ result[Agent].kind = "raise"
    /\ failed' = failed \cup {"cache load"}
    /\ reuse_cache' = FALSE
    /\ pcP' = "reload"
    /\ UNCHANGED fpvars
    /\ UNCHANGED << documents, summary_documents, all_chunks, product_context,
                    served, llm_calls, requests >>
    /\ UNCHANGED << rag, qvars >>

\* The exception create_vector_db raised has been caught, or has left
\* process.
ProcessCaught ==
    /\ pcP \in {"handler", "reload", "raised"}
    /\ Caught(Agent)

\* Lines 211-212 and 231-232: the documents are loaded again; with none, the
\* cache error is raised again.
Reload ==
    /\ pcP = "reload"
    /\ pc[Agent] = "idle"
    /\ \E l \in Loads :
        /\ files_to_load' = l[1]
        /\ documents' = l[2]
        /\ failed' = IF Len(l[2]) < Len(l[1]) THEN failed \cup {"load"} ELSE failed
    /\ pcP' = AfterCacheError(documents')
    /\ UNCHANGED << data, selected_documents, supplied, current_fingerprint, pcF >>
    /\ UNCHANGED << reuse_cache, summary_documents, all_chunks, product_context,
                    served, llm_calls, requests >>
    /\ UNCHANGED << rag, qvars >>

\* Lines 214-229: the summaries of the re-ingestion, then the raw chunks and
\* the summaries together.
Resummarize ==
    /\ pcP = "resummarize"
    /\ \E doc_type \in [FileNames -> DocTypes] :
        LET sources == DocsBySource(documents)
        IN summary_documents' =
             [i \in 1..Len(sources) |-> ResummaryMetadata(sources[i], doc_type[sources[i]])]
    /\ all_chunks' = RawChunks(documents) \o summary_documents'
    /\ pcP' = "reindex"
    /\ UNCHANGED fpvars
    /\ UNCHANGED << reuse_cache, documents, product_context, failed, served,
                    llm_calls, requests >>
    /\ UNCHANGED << rag, qvars >>

\* Lines 225 and 250: summarize_document raises during the re-ingestion.
ResummarizeFails ==
    /\ pcP = "resummarize"
    /\ failed' = failed \cup {"summarize"}
    /\ pcP' = OnException
    /\ UNCHANGED fpvars
    /\ UNCHANGED << reuse_cache, documents, summary_documents, all_chunks,
                    product_context, served, llm_calls, requests >>
    /\ UNCHANGED << rag, qvars >>

\* The index is open for the retrieval.
ProcessUse ==
    /\ pcP = "retrieve"
    /\ Use(Agent)

\* Lines 235-244: synthesize_requirements_for_query(vector_db, ...) returns
\* its synthesis or one of its two messages.
Retrieve ==
    /\ pcP = "retrieve"
    /\ pc[Agent] = "using"
    /\ \E text \in {"Synthesis", "No relevant documentation found", "Error retrieving relevant context"} :
        product_context' = text
    /\ served' = result[Agent].loc
    /\ pcP' = "release"
    /\ UNCHANGED fpvars
    /\ UNCHANGED << reuse_cache, documents, summary_documents, all_chunks, failed,
                    llm_calls, requests >>
    /\ UNCHANGED << rag, qvars >>

\* The retrieval is over.
ProcessRelease ==
    /\ pcP = "release"
    /\ Release(Agent)

\* Lines 250-268: the handler of the retrieval stage.
Handle ==
    /\ pcP = "handler"
    /\ pc[Agent] = "idle"
    /\ product_context' = "Unable: exception"
    /\ pcP' = "prompt"
    /\ UNCHANGED fpvars
    /\ UNCHANGED << reuse_cache, documents, summary_documents, all_chunks, failed,
                    served, llm_calls, requests >>
    /\ UNCHANGED << rag, qvars >>

\* Lines 272-362 and 364-366: the prompt is made with product_context and
\* llm.generate_with_json_output is called; what it raises, process raises.
Generate ==
    /\ pcP \in {"prompt", "release"}
    /\ pc[Agent] = "idle"
    /\ llm_calls' = llm_calls + 1
    /\ \E ok \in BOOLEAN : pcP' = IF ok THEN "done" ELSE "raised"
    /\ UNCHANGED fpvars
    /\ UNCHANGED << reuse_cache, documents, summary_documents, all_chunks,
                    product_context, failed, served, requests >>
    /\ UNCHANGED << rag, qvars >>

\* Somebody uploads a document in the Knowledge Hub (app.py 1164-1179): the
\* file is written and the helper clear_vector_db removes DB_PATH.
Upload ==
    /\ AllIdle
    /\ \E f \in FileNames, t \in 1..MaxMtime :
        /\ t >= data[f].mtime
        /\ data[f] # [kind |-> "file", mtime |-> t]
        /\ data' = [data EXCEPT ![f] = [kind |-> "file", mtime |-> t]]
    /\ dirs' = IF dirs[DB_PATH].exists THEN [dirs EXCEPT ![DB_PATH] = NoDir] ELSE dirs
    /\ lastCall' = NoCall
    /\ UNCHANGED << clock, cache, pc, args, locals, result, ghost, touched, lastWriter, calls >>
    /\ UNCHANGED << selected_documents, supplied, current_fingerprint, files_to_load, pcF >>
    /\ UNCHANGED << qvars, pvars >>

\* The steps inside create_vector_db.
CallSteps ==
    \E p \in Procs :
        \/ ReadCache(p)
        \/ LoadCached(p)
        \/ Alloc(p)
        \/ Build(p)
        \/ OpenCache(p)
        \/ DumpCache(p)
        \/ ListDir(p)
        \/ Remove(p)
        \/ Return(p)

\* The steps of process.
ProcessSteps ==
    \/ StartProcess \/ Fingerprint \/ ReadCachedFingerprint \/ Load \/ Summarize
    \/ Index \/ LoadFromCache \/ Reindex \/ GotIndex
    \/ CacheLoadRaised \/ ProcessCaught \/ Reload \/ Resummarize \/ ProcessUse
    \/ Retrieve \/ ProcessRelease \/ Handle \/ Generate \/ EndProcess

\* A fresh installation: no document, no cache file, no index.
InitP ==
    /\ RagInit
    /\ dirs = NoDirs
    /\ FpIdle
    /\ QIdle
    /\ PIdle

\* One request after the other; between requests documents are uploaded and
\* the index directories and the cache file may be damaged; documents may
\* fail to load.
NextP ==
    \/ ProcessSteps
    \/ CallSteps
    \/ (Between /\ Upload)
    \/ (Between /\ OobDelete)
    \/ (Between /\ OobCorrupt)
    \/ (Between /\ OobGarble)
SpecP == InitP /\ [][NextP]_vars

\* The first request finds any documents uploaded, no cache file, no index.
InitPF ==
    /\ RagInit
    /\ dirs = NoDirs
    /\ QIdle
    /\ PIdle
    /\ data \in { d \in Disks : \A f \in FileNames : d[f].kind # "dir" /\ d[f].mtime <= 1 }
    /\ selected_documents = NoSelection
    /\ supplied = NoSelection
    /\ current_fingerprint = NoDigest
    /\ files_to_load = << >>
    /\ pcF = "idle"

\* One request after the other on the same documents; the index directories
\* and the cache file may be damaged between requests, documents may fail to
\* load, and any step of the retrieval stage may fail: fingerprinting,
\* summarization, the index build.
NextPF ==
    \/ ProcessSteps
    \/ CallSteps
    \/ (Between /\ OobDelete)
    \/ (Between /\ OobCorrupt)
    \/ (Between /\ OobGarble)
    \/ FingerprintFails
    \/ SummarizeFails
    \/ ResummarizeFails
    \/ BuildFails(Agent)
    \/ IndexRaised
SpecPF == InitPF /\ [][NextPF]_vars

\* As SpecP, and documents are uploaded while a request runs.
NextPU ==
    \/ NextP
    \/ (~Between /\ Upload)
SpecPU == InitP /\ [][NextPU]_vars

\* ------------------------------------------------------------------ claims
\* States right after create_vector_db returned or raised, before the caller
\* does anything else.
AtReturn(p) == pc[p] = "ret"
Rebuilt(p) == AtReturn(p) /\ result[p].kind = "rebuilt"
Existing == { l \in Loc : dirs[l].exists }

\* C1: every REBUILD builds its index in a location that was not on the disk
\* when the REBUILD chose it, also when two REBUILDs start in the same second.
C1_RebuildLocationFresh ==
    \A p \in Procs :
        (pc[p] \in {"build", "write", "dump", "list", "rm"}
            \/ (AtReturn(p) /\ new_db_path[p] # NoPath)) => fresh[p]

\* C2: with no call in progress, a cache record names a location that exists
\* (calls made with or without a fingerprint, nothing deleted out-of-band).
C2_RecordedLocationExists ==
    (Quiescent /\ cache.state = "record") => dirs[cache.db_path].exists

C4_HitChangesNothing ==
    \A p \in Procs :
        (AtReturn(p) /\ preHit[p])
            => (result[p] = Returned("hit", preRec[p]) /\ ~touched[p])

\* A HIT has returned to a caller that supplied segments.
C4_Witness ==
    \E p \in Procs :
        AtReturn(p) /\ preHit[p] /\ ~chunks[p].isNone /\ chunks[p].list # << >>

C6_RebuildNotPreviousIndex ==
    \A p \in Procs :
        (AtReturn(p) /\ ~chunks[p].isNone /\ ~preHit[p] /\ result[p].kind # "raise")
            => /\ result[p].kind = "rebuilt"
               /\ result[p].loc = preRec[p] => fresh[p]

C9_OverlappingRebuildsConsistent ==
    (/\ \A p \in Procs : Rebuilt(p) /\ Truthy(fingerprint[p]) /\ overlapped[p]
     /\ result[1].loc # result[2].loc)
        => /\ cache.state = "record"
           /\ lastWriter \in Procs
           /\ dirs[cache.db_path].exists
           /\ dirs[cache.db_path].segs = chunks[lastWriter].list

\* C10: the location of an index a request got from a HIT and still uses is
\* on the disk.
C10_ReaderIndexKept ==
    \A p \in Procs :
        (pc[p] = "using" /\ result[p].kind = "hit") => dirs[result[p].loc].exists

\* C11: a request that reads the cache file never finds it empty or partly
\* written, also while another request is writing its record (no
\* out-of-band damage).
C11_ReaderSeesCompleteRecord ==
    [][\A p \in Procs :
          (pc[p] = "read" /\ pc'[p] # "read") => cache.state # "garbage"]_vars

\* C12: a call with fingerprint F2 made while the cache file records {F1, L1},
\* F1 # F2: without chunks it raises ValueError and changes nothing; with
\* chunks it rebuilds at a location L2 # L1 that was not on the disk, records
\* {F2, L2} and removes L1 (unless that removal failed).
C12_InvalidationSequence ==
    \A p \in Procs :
        (AtReturn(p) /\ Truthy(fingerprint[p]) /\ Truthy(preFp[p])
            /\ preFp[p] # fingerprint[p])
        => IF chunks[p].isNone
           THEN result[p] = Raised("ValueError") /\ ~touched[p]
           ELSE /\ result[p].kind = "rebuilt"
                /\ fresh[p]
                /\ result[p].loc # preRec[p]
                /\ cache = CacheRecord(fingerprint[p], result[p].loc)
                /\ dirs[preRec[p]].exists => preRec[p] \in skipped[p]

C14_EmptyListBuildsEmptyIndex ==
    \A p \in Procs :
        (AtReturn(p) /\ ~chunks[p].isNone /\ chunks[p].list = << >> /\ ~preHit[p])
        => /\ result[p].kind = "rebuilt"
           /\ fresh[p]
           /\ dirs[result[p].loc].segs = << >>

\* The {name -> modification time} mapping of a selection on a disk: the
\* selected names that exist, or with no selection the regular files.
Resolved(d, sel) ==
    LET names == IF sel.isNone
                 THEN { f \in FileNames : d[f].kind = "file" }
                 ELSE { f \in Range(sel.list) : d[f].kind # "none" }
    IN { <<f, d[f].mtime>> : f \in names }

\* The lists get_selection_fingerprint may work on for a selection.
EffectiveLists(d, sel) == IF sel.isNone THEN Listings(d) ELSE {sel.list}

\* C15: the fingerprint a call returned equals the fingerprint of any other
\* disk and selection exactly when the two resolved {name -> mtime} mappings
\* are equal (the hash being injective).
C15_FingerprintIffSameMapping ==
    pcF # "idle" =>
        \A d2 \in Disks, s2 \in Selections :
            \A l2 \in EffectiveLists(d2, s2) :
                (SelectionFingerprint(d2, l2) = current_fingerprint)
                    <=> (Resolved(d2, s2) = Resolved(data, supplied))

\* A call whose selection names a file that exists and a name that does not.
C15_Witness ==
    /\ pcF # "idle"
    /\ ~supplied.isNone
    /\ \E f, g \in Range(supplied.list) : data[f].kind = "none" /\ data[g].kind = "file"

\* C16: on the same disk, every ordering of the names a call was given has
\* the fingerprint the call returned.
C16_FingerprintOrderIndependent ==
    (pcF # "idle" /\ ~supplied.isNone) =>
        \A l2 \in NameLists :
            Range(l2) = Range(supplied.list)
                => SelectionFingerprint(data, l2) = current_fingerprint

\* A call given two existing names in descending order.
C16_Witness ==
    /\ pcF # "idle"
    /\ supplied = [isNone |-> FALSE, list |-> <<"b.md", "a.md">>]
    /\ \A f \in FileNames : data[f].kind = "file"

\* C17: a call of get_selection_fingerprint leaves the disk, the cache file,
\* the index directories and the caller's selection list as they were.
C17_FingerprintNoSideEffects ==
    [][(pcF = "idle" /\ pcF' = "fingerprinted")
          => UNCHANGED << data, cache, dirs, selected_documents >>]_vars

\* The first occurrence of each text of a sequence, in order.
RECURSIVE FirstOccurrences(_)
FirstOccurrences(t) ==
    IF t = << >> THEN << >>
    ELSE LET front == SubSeq(t, 1, Len(t) - 1)
             kept == FirstOccurrences(front)
         IN IF t[Len(t)] \in Range(front) THEN kept ELSE Append(kept, t[Len(t)])

\* The context list has been taken.
Truncated == pcQ = "synthesize" \/ (pcQ = "done" /\ multi_queries # << >>)

\* C18: the context list is the first top_k of the distinct texts, in the
\* order they were first retrieved over the variants' searches.
C18_ContextIsTruncatedDedup ==
    Truncated =>
        LET distinct == FirstOccurrences(retrieved)
        IN /\ relevant_docs = SubSeq(distinct, 1, IF top_k < Len(distinct) THEN top_k ELSE Len(distinct))
           /\ Len(relevant_docs) <= top_k
           /\ \A i, j \in 1..Len(relevant_docs) : i # j => relevant_docs[i] # relevant_docs[j]

\* Several variants were searched, a text came back more than once, and the
\* distinct texts were more than top_k.
C18_Witness ==
    /\ Truncated
    /\ Len(multi_queries) > 1
    /\ Len(FirstOccurrences(retrieved)) < Len(retrieved)
    /\ 0 < top_k
    /\ top_k < Len(FirstOccurrences(retrieved))

\* C19: when the query-expansion call fails (no variants were made), the
\* similarity search is still run with the original query.
C19_ExpansionFailureDegrades ==
    (pcQ = "done" /\ multi_queries = << >>) => searched = <<query>>

\* C20: the list generate_multi_queries returned contains the original
\* query, character for character.
C20_OriginalQueryIncluded ==
    pcQ \in {"search", "synthesize"} => \E i \in 1..Len(multi_queries) : multi_queries[i] = query

\* generate_multi_queries returned a list whose first variant is not the
\* query, for a query that strip() would change.
C20_Witness ==
    /\ pcQ = "search"
    /\ Len(multi_queries) > 1
    /\ multi_queries[1] # query
    /\ Strip(query) # query

\* The documents of the searches that returned, one search after the other.
RECURSIVE FoundDocs(_)
FoundDocs(h) ==
    IF h = << >> THEN << >>
    ELSE (IF Head(h).raised THEN << >> ELSE Head(h).docs) \o FoundDocs(Tail(h))

\* C21: a similarity search that raises for one variant loses nothing: every
\* variant of the list is searched, and the aggregated list holds the
\* distinct documents of every search that returned, before and after the
\* failed one.
C21_FailedVariantKeepsOthers ==
    /\ pcQ \in {"search", "synthesize"} =>
        /\ searched = SubSeq(multi_queries, 1, Len(hits))
        /\ all_relevant_docs = FirstOccurrences(FoundDocs(hits))
    /\ Truncated => Len(hits) = Len(multi_queries)

\* The search of a middle variant raised; the searches before and after it
\* returned different documents, and both are in the aggregated list.
C21_Witness ==
    /\ pcQ = "synthesize"
    /\ Len(hits) = 3
    /\ ~hits[1].raised /\ hits[1].docs = <<"x">>
    /\ hits[2].raised
    /\ ~hits[3].raised /\ hits[3].docs = <<"y">>
    /\ all_relevant_docs = <<"x", "y">>

\* C22: when a similarity search raised, the caller gets the error outcome
\* and not the "No relevant documentation" one.
C22_SearchFailureReported ==
    (pcQ = "done" /\ \E i \in 1..Len(hits) : hits[i].raised) => outcome = ErrorMessage

\* C27: once clear_vector_db has run no index location is left on disk and
\* no fingerprint resolves to a cache HIT, so that the next generation
\* rebuilds.
C27_ClearRemovesIndexAndCache ==
    [][ClearVectorDb => (Existing = {} /\ \A f \in Fingerprints : ~ValidHit(f))']_vars

\* C28: a build that fails leaves the call raising, with the cache file and
\* every index location that existed when the call started as they were:
\* nothing was changed before the build, the failing build changes no
\* location that existed, and the call ends without writing the record or
\* cleaning up.
C28_FailedBuildChangesNothing ==
    [][\A p \in Procs :
          /\ pc[p] = "build" => ~touched[p]
          /\ (pc[p] = "build" /\ result'[p] = Raised("BuildError")) =>
                /\ pc'[p] = "ret"
                /\ cache' = cache
                /\ \A l \in Loc : dirs[l].exists => dirs'[l] = dirs[l]]_vars

\* C29: in a REBUILD the record is written after the build and the cleanup
\* comes after the record: the cache file never names a location in which a
\* build has yet to complete, and the location the cache file named when the
\* call started is removed only once the call's own record is in the file.
C29_BuildRecordCleanupOrder ==
    [][\A p \in Procs :
          /\ (cache.state = "record" /\ pc[p] = "build") => cache.db_path # new_db_path[p]
          /\ (preRec[p] # NoPath /\ dirs[preRec[p]].exists /\ ~dirs'[preRec[p]].exists
                /\ pc[p] = "rm") => cache = NewRecord(p)]_vars

\* process is over: it returned, or raised what the LLM call raised.
ProcessOver == pcP \in {"done", "raised"}

\* The texts of product_context that begin with "Unable to retrieve
\* documentation".
UnableContexts ==
    { "Unable: no documents selected",
      "Unable: none of the selected documents could be loaded",
      "Unable: no documents found",
      "Unable: exception" }

\* C23: when summarize_document failed and nothing else did, the index has
\* still been built and the context has been retrieved from it.
C23_SummaryFailureKeepsRetrieval ==
    (ProcessOver /\ failed = {"summarize"}) =>
        /\ served # NoPath
        /\ product_context \notin UnableContexts

\* The request was made with selected_documents = [].
EmptySelection == ~supplied.isNone /\ supplied.list = << >>

\* C24: a request with the empty selection never calls create_vector_db,
\* never retrieves from an index, and goes to the LLM with the context that
\* says no documents are selected.
C24_EmptySelectionLabelled ==
    EmptySelection =>
        /\ pcP \in {"fingerprint", "cache", "load", "prompt", "done", "raised"}
        /\ pc[Agent] = "idle"
        /\ served = NoPath
        /\ pcP \in {"prompt", "done", "raised"} => product_context = "Unable: no documents selected"

SummariesOf(segments) == SelectSeq(segments, LAMBDA c : c.layer = "document_summary")

\* C26: when a call of process to create_vector_db has rebuilt, the segments
\* it was given hold exactly one summary for each source among the loaded
\* documents and for nothing else, each with its source, the summary layer
\* and a type that is spec or narrative.
C26_OneTypedSummaryPerSource ==
    (pcP \in {"index", "reindex"} /\ pc[Agent] = "ret" /\ result[Agent].kind = "rebuilt") =>
        LET summaries == SummariesOf(all_chunks)
        IN /\ \A src \in Range(documents) :
                 Cardinality({ i \in 1..Len(summaries) : summaries[i].source = src }) = 1
           /\ \A i \in 1..Len(summaries) :
                 /\ summaries[i].source \in Range(documents)
                 /\ summaries[i].type \in DocTypes

\* C30 as stated: whatever failed in the retrieval stage, the product
\* context is an "Unable to retrieve documentation" text and the LLM has
\* been called once.
C30_AnyFailureGivesUnableContext ==
    (ProcessOver /\ failed # {}) =>
        /\ product_context \in UnableContexts
        /\ llm_calls = 1

\* The failures that leave the retrieval stage as an exception: of the
\* fingerprint, of a summary, of a rebuild, and of the cache load when the
\* documents do not load again.
Escaped ==
    \/ failed \cap {"fingerprint", "summarize", "build"} # {}
    \/ "cache load" \in failed /\ documents = << >>

\* C30: no exception leaves the retrieval stage.  The prompt is always made
\* with a product context and the LLM is called exactly once; process
\* raises only what that call raises.  After an exception in the stage the
\* context is the "Unable to retrieve documentation" text of the handler;
\* after a cache file that did not parse, a document that did not load or a
\* cached index that did not load, the request goes on with ingestion.
C30_RetrievalFailureNeverRaises ==
    /\ pcP = "raised" => llm_calls = 1
    /\ pcP = "prompt" => llm_calls = 0 /\ product_context # "unset"
    /\ ProcessOver =>
          /\ llm_calls = 1
          /\ product_context # "unset"
          /\ Escaped => product_context = "Unable: exception"
          /\ (~Escaped /\ documents # << >>) =>
                (served # NoPath /\ product_context \notin UnableContexts)

\* A request whose index build failed went to the LLM with the handler's
\* context.
C30_Witness ==
    /\ pcP = "done"
    /\ "build" \in failed
    /\ product_context = "Unable: exception"
    /\ llm_calls = 1

====
